---- MODULE Spec2Model ----
(***************************************************************************)
(* Screenshot service: the Express handler POST /screenshot (index.ts) and *)
(* the capture component (screenshot.ts): the shared headless browser      *)
(* handle, takeScreenshot, takeScreenshotFromHtml and the SIGTERM/SIGINT   *)
(* handlers.  One action is the code that runs between two awaits.         *)
(***************************************************************************)
EXTENDS Integers, Sequences, FiniteSets, TLC

\* Number of request slots that can be in flight together.
NumReqs == 2
\* Longest url string that is enumerated.
MaxUrlLen == 2

Reqs == 1..NumReqs
Handlers == {"SIGTERM", "SIGINT"}

-----------------------------------------------------------------------------
(* JavaScript values of the request body *)

Alpha == {"a"}
Digit == {"1"}
Chars == Alpha \cup Digit \cup {":"}

Undefined == [t |-> "undefined", s |-> <<>>, n |-> 0, b |-> FALSE]
Str(s) == [t |-> "string", s |-> s, n |-> 0, b |-> FALSE]
Num(n) == [t |-> "number", s |-> <<>>, n |-> n, b |-> FALSE]
Bool(b) == [t |-> "boolean", s |-> <<>>, n |-> 0, b |-> b]
Arr == [t |-> "array", s |-> <<>>, n |-> 0, b |-> FALSE]
Obj == [t |-> "object", s |-> <<>>, n |-> 0, b |-> FALSE]

\* typeof x
TypeOf(x) == IF x.t = "array" THEN "object" ELSE x.t

\* ToBoolean(x), as used by if (x) and !x
Truthy(x) ==
  CASE x.t = "undefined" -> FALSE
    [] x.t = "string" -> x.s # <<>>
    [] x.t = "number" -> x.n # 0
    [] x.t = "boolean" -> x.b
    [] OTHER -> TRUE

StringsUpTo(n) == UNION {[1..k -> Chars] : k \in 0..n}

\* new URL(s) without a base: a scheme (a letter, then letters or digits)
\* followed by ":" is required; what follows a non-special scheme always parses.
ParsesAsUrl(s) ==
  \E i \in 2..Len(s) :
    /\ s[i] = ":"
    /\ s[1] \in Alpha
    /\ \A j \in 2..(i - 1) : s[j] \in Alpha \cup Digit

HtmlValues ==
  {Undefined, Num(0), Num(1), Bool(FALSE), Bool(TRUE), Arr, Obj, Str(<<>>), Str(<<"a">>)}
UrlValues == {Undefined} \cup {Str(s) : s \in StringsUpTo(MaxUrlLen)}

OptionSets ==
  [type : {"undefined", "png", "jpeg"},
   transparent : {"undefined", "true", "false"},
   headless : {"undefined", "false"},
   selector : {"undefined", "", "#card"},
   fullPage : {"undefined", "true"}]

NoOptions ==
  [type |-> "undefined", transparent |-> "undefined", headless |-> "undefined",
   selector |-> "undefined", fullPage |-> "undefined"]

\* Every body of the enumeration
AllBodies == [html : HtmlValues, url : UrlValues, opts : OptionSets]

\* The bodies used when requests run concurrently: both modes, shared and debug browser
ConcBodies ==
  [html : {Undefined, Str(<<"a">>)}, url : {Str(<<"a", ":">>)},
   opts : {o \in OptionSets : /\ o.type = "undefined" /\ o.transparent = "undefined"
                              /\ o.selector = "undefined" /\ o.fullPage = "undefined"}]

NoBody == [html |-> Undefined, url |-> Undefined, opts |-> NoOptions]

-----------------------------------------------------------------------------
(* Option defaults *)

Transparent(o) == IF o.transparent = "undefined" THEN TRUE ELSE o.transparent = "true"
Headless(o) == IF o.headless = "undefined" THEN TRUE ELSE o.headless = "true"
FullPage(o) == IF o.fullPage = "undefined" THEN FALSE ELSE o.fullPage = "true"
Selector(o) == IF o.selector = "undefined" THEN "#review-card" ELSE o.selector
ImageTypeOpt(o) == IF o.type = "undefined" THEN "png" ELSE o.type

\* const screenshotType = transparent ? "png" : type
ScreenshotType(o) == IF Transparent(o) THEN "png" ELSE ImageTypeOpt(o)

\* The Content-Type header the handler sets: options?.type || "png"
ContentType(o) ==
  LET imageType == IF o.type = "undefined" THEN "png" ELSE o.type
  IN IF imageType = "jpeg" THEN "image/jpeg" ELSE "image/png"

\* The Content-Type that names an image type
MimeOf(ty) == IF ty = "jpeg" THEN "image/jpeg" ELSE "image/png"

-----------------------------------------------------------------------------
(* Validation done by the handler before any capture starts *)

ValidateNoUrlCheck(b) ==
  IF Truthy(b.html)
    THEN IF TypeOf(b.html) # "string" THEN "Invalid HTML format" ELSE "html"
    ELSE IF ~Truthy(b.url) THEN "URL or HTML is required" ELSE "url"

Validate(b) ==
  IF Truthy(b.html)
    THEN IF TypeOf(b.html) # "string" THEN "Invalid HTML format" ELSE "html"
    ELSE IF ~Truthy(b.url) THEN "URL or HTML is required"
    ELSE IF ~ParsesAsUrl(b.url.s) THEN "Invalid URL format"
    ELSE "url"

-----------------------------------------------------------------------------
VARIABLES
  browser,   \* the module-level handle: 0 is null, else the instance it holds
  inst,      \* browser instances; the one launched by request r has id r
  req,       \* the requests: position, locals, response; elemErr is the
             \* step of the element path that failed
  sig,       \* the invocations of the signal handlers
  exited     \* process.exit was called (or the process crashed)

vars == <<browser, inst, req, sig, exited>>

NoResp == [status |-> 0, error |-> "", ctype |-> "", bytes |-> "none"]

IdleReq ==
  [pc |-> "idle", body |-> NoBody, mode |-> "none", bi |-> 0,
   ctx |-> "none", page |-> "none", err |-> "none", elemErr |-> "none",
   ret |-> "none", imgType |-> "none", elemShots |-> 0, pageShots |-> 0,
   resp |-> NoResp]

Init ==
  /\ browser = 0
  /\ inst = [i \in Reqs |-> [status |-> "none", shared |-> FALSE]]
  /\ req = [r \in Reqs |-> IdleReq]
  /\ sig = [h \in Handlers |-> [pc |-> "idle", target |-> 0]]
  /\ exited = FALSE

-----------------------------------------------------------------------------
(* Responses of the handler *)

Respond400(q, error) ==
  [q EXCEPT !.pc = "done",
            !.resp = [status |-> 400, error |-> error, ctype |-> "application/json",
                      bytes |-> "none"]]

\* catch (error) of the handler: the error thrown at step
Respond500(q, step) ==
  [q EXCEPT !.pc = "done", !.err = step,
            !.resp = [status |-> 500, error |-> "Screenshot failed",
                      ctype |-> "application/json", bytes |-> "none"]]

\* setHeader("Content-Type", ...); res.send(screenshotBuffer)
Respond200(q) ==
  [q EXCEPT !.pc = "done",
            !.resp = [status |-> 200, error |-> "", ctype |-> ContentType(q.body.opts),
                      bytes |-> q.ret]]

\* A throw inside the try block: control goes to finally with the error pending
Throw(q, step) == [q EXCEPT !.pc = "pageClose", !.err = step]

\* The end of finally: rethrow the pending error, or return the buffer
Finish(q) == IF q.err # "none" THEN Respond500(q, q.err) ELSE Respond200(q)

-----------------------------------------------------------------------------
(* getBrowser and the launch it awaits *)

Set(r, q) == req' = [req EXCEPT ![r] = q]

\* getBrowser(headless) up to its first await, called with the request q
GetBrowser(r, q) ==
  IF ~Headless(q.body.opts)
    THEN /\ inst' = [inst EXCEPT ![r] = [status |-> "launching", shared |-> FALSE]]
         /\ Set(r, [q EXCEPT !.pc = "launch"])
    ELSE IF browser = 0
      THEN /\ inst' = [inst EXCEPT ![r] = [status |-> "launching", shared |-> TRUE]]
           /\ Set(r, [q EXCEPT !.pc = "launch"])
      ELSE /\ inst' = inst
           /\ Set(r, [q EXCEPT !.pc = "newContext", !.bi = browser])

\* POST /screenshot with a body of Bodies: validation, then the call of
\* takeScreenshot or takeScreenshotFromHtml, which runs up to the await inside
\* getBrowser
PostScreenshot(r, Bodies) ==
  /\ ~exited
  /\ req[r].pc = "idle"
  /\ \E b \in Bodies :
       LET v == Validate(b)
           q == [IdleReq EXCEPT !.body = b]
       IN IF v \in {"html", "url"}
            THEN GetBrowser(r, [q EXCEPT !.mode = v])
            ELSE /\ Set(r, Respond400(q, v))
                 /\ inst' = inst
  /\ UNCHANGED <<browser, sig, exited>>

\* chromium.launch settles; the shared launch assigns the handle
Launch(r) ==
  /\ ~exited
  /\ req[r].pc = "launch"
  /\ \/ /\ inst' = [inst EXCEPT ![r].status = "running"]
        /\ browser' = IF inst[r].shared THEN r ELSE browser
        /\ Set(r, [req[r] EXCEPT !.pc = "newContext", !.bi = r])
     \/ /\ inst' = [inst EXCEPT ![r].status = "failed"]
        /\ browser' = browser
        /\ Set(r, Respond500(req[r], "launch"))
  /\ UNCHANGED <<sig, exited>>

-----------------------------------------------------------------------------
(* Context and page creation, before the try block *)

NewContext(r) ==
  /\ ~exited
  /\ req[r].pc = "newContext"
  /\ \/ Set(r, [req[r] EXCEPT !.pc = "newPage", !.ctx = "open"])
     \/ Set(r, Respond500(req[r], "newContext"))
  /\ UNCHANGED <<browser, inst, sig, exited>>

NewPage(r) ==
  /\ ~exited
  /\ req[r].pc = "newPage"
  /\ \/ Set(r, [req[r] EXCEPT !.page = "open",
                              !.pc = IF req[r].mode = "url" THEN "goto" ELSE "setContent"])
     \/ Set(r, Respond500(req[r], "newPage"))
  /\ UNCHANGED <<browser, inst, sig, exited>>

-----------------------------------------------------------------------------
(* takeScreenshot: the try block *)

AfterDebugWait(o) == IF Selector(o) # "" THEN "count" ELSE "pageShot"
AfterStyleTag(o) == IF ~Headless(o) THEN "debugWait" ELSE AfterDebugWait(o)
AfterGoto(o) == IF Transparent(o) THEN "addStyleTag" ELSE AfterStyleTag(o)
AfterVisible(o) == IF Transparent(o) THEN "evaluate" ELSE "elemShot"

\* The catch of the element path: log, then fall through to the page capture
RethrowElementError(q) == Throw(q, "element")
CatchElementError(q) == [q EXCEPT !.pc = "pageShot"]

Goto(r) ==
  /\ ~exited
  /\ req[r].pc = "goto"
  /\ \/ Set(r, [req[r] EXCEPT !.pc = AfterGoto(req[r].body.opts)])
     \/ Set(r, Throw(req[r], "goto"))
  /\ UNCHANGED <<browser, inst, sig, exited>>

AddStyleTag(r) ==
  /\ ~exited
  /\ req[r].pc = "addStyleTag"
  /\ \/ Set(r, [req[r] EXCEPT !.pc = AfterStyleTag(req[r].body.opts)])
     \/ Set(r, Throw(req[r], "addStyleTag"))
  /\ UNCHANGED <<browser, inst, sig, exited>>

DebugWait(r) ==
  /\ ~exited
  /\ req[r].pc = "debugWait"
  /\ \/ Set(r, [req[r] EXCEPT !.pc = AfterDebugWait(req[r].body.opts)])
     \/ Set(r, Throw(req[r], "debugWait"))
  /\ UNCHANGED <<browser, inst, sig, exited>>

\* element.count(): some match, no match (throw new Error), or the call rejects
Count(r) ==
  /\ ~exited
  /\ req[r].pc = "count"
  /\ \E out \in {"some", "zero", "rejects"} :
       IF out = "some"
         THEN Set(r, [req[r] EXCEPT !.pc = "waitFor"])
         ELSE Set(r, CatchElementError([req[r] EXCEPT !.elemErr = "count"]))
  /\ UNCHANGED <<browser, inst, sig, exited>>

\* element.waitFor({state: "visible", timeout: waitTimeout})
WaitFor(r) ==
  /\ ~exited
  /\ req[r].pc = "waitFor"
  /\ \/ Set(r, [req[r] EXCEPT !.pc = "isVisible"])
     \/ Set(r, CatchElementError([req[r] EXCEPT !.elemErr = "waitFor"]))
  /\ UNCHANGED <<browser, inst, sig, exited>>

\* element.isVisible(): true, false (throw new Error), or the call rejects
IsVisible(r) ==
  /\ ~exited
  /\ req[r].pc = "isVisible"
  /\ \E out \in {"visible", "hidden", "rejects"} :
       IF out = "visible"
         THEN Set(r, [req[r] EXCEPT !.pc = AfterVisible(req[r].body.opts)])
         ELSE Set(r, CatchElementError([req[r] EXCEPT !.elemErr = "isVisible"]))
  /\ UNCHANGED <<browser, inst, sig, exited>>

\* page.evaluate: the ancestors' backgrounds are made transparent
Evaluate(r) ==
  /\ ~exited
  /\ req[r].pc = "evaluate"
  /\ \/ Set(r, [req[r] EXCEPT !.pc = "elemShot"])
     \/ Set(r, CatchElementError([req[r] EXCEPT !.elemErr = "evaluate"]))
  /\ UNCHANGED <<browser, inst, sig, exited>>

\* element.screenshot, then return elementBuffer
ElementShot(r) ==
  /\ ~exited
  /\ req[r].pc = "elemShot"
  /\ LET q == [req[r] EXCEPT !.elemShots = @ + 1]
     IN \/ Set(r, [q EXCEPT !.pc = "pageClose", !.ret = "element",
                            !.imgType = ScreenshotType(q.body.opts)])
        \/ Set(r, CatchElementError([q EXCEPT !.elemErr = "elemShot"]))
  /\ UNCHANGED <<browser, inst, sig, exited>>

\* page.screenshot({fullPage, ...}), then return screenshotBuffer
PageShot(r) ==
  /\ ~exited
  /\ req[r].pc = "pageShot"
  /\ LET q == [req[r] EXCEPT !.pageShots = @ + 1]
     IN \/ Set(r, [q EXCEPT !.pc = "pageClose",
                            !.ret = IF FullPage(q.body.opts) THEN "fullpage" ELSE "viewport",
                            !.imgType = ScreenshotType(q.body.opts)])
        \/ Set(r, Throw(q, "pageShot"))
  /\ UNCHANGED <<browser, inst, sig, exited>>

-----------------------------------------------------------------------------
(* takeScreenshotFromHtml: the try block *)

\* element.waitFor rejects: nothing catches it before finally
WaitForCardFallsBack(q) == [q EXCEPT !.pc = "pageShot"]
WaitForCardRejected(q) == Throw(q, "waitForCard")

SetContent(r) ==
  /\ ~exited
  /\ req[r].pc = "setContent"
  /\ \/ Set(r, [req[r] EXCEPT !.pc = "waitForCard"])
     \/ Set(r, Throw(req[r], "setContent"))
  /\ UNCHANGED <<browser, inst, sig, exited>>

\* page.locator("#review-card").waitFor({state: "visible", timeout})
WaitForCard(r) ==
  /\ ~exited
  /\ req[r].pc = "waitForCard"
  /\ \/ Set(r, [req[r] EXCEPT !.pc = IF ~Headless(req[r].body.opts)
                                       THEN "debugWaitHtml" ELSE "cardShot"])
     \/ Set(r, WaitForCardRejected([req[r] EXCEPT !.elemErr = "waitForCard"]))
  /\ UNCHANGED <<browser, inst, sig, exited>>

DebugWaitHtml(r) ==
  /\ ~exited
  /\ req[r].pc = "debugWaitHtml"
  /\ \/ Set(r, [req[r] EXCEPT !.pc = "cardShot"])
     \/ Set(r, Throw(req[r], "debugWaitHtml"))
  /\ UNCHANGED <<browser, inst, sig, exited>>

\* element.screenshot of #review-card, then return screenshotBuffer
CardShot(r) ==
  /\ ~exited
  /\ req[r].pc = "cardShot"
  /\ LET q == [req[r] EXCEPT !.elemShots = @ + 1]
     IN \/ Set(r, [q EXCEPT !.pc = "pageClose", !.ret = "element",
                            !.imgType = ScreenshotType(q.body.opts)])
        \/ Set(r, Throw(q, "cardShot"))
  /\ UNCHANGED <<browser, inst, sig, exited>>

-----------------------------------------------------------------------------
(* The finally block of both functions *)

PageClose(r) ==
  /\ ~exited
  /\ req[r].pc = "pageClose"
  /\ \/ Set(r, [req[r] EXCEPT !.pc = "ctxClose", !.page = "closed"])
     \/ Set(r, Respond500(req[r], "pageClose"))
  /\ UNCHANGED <<browser, inst, sig, exited>>

\* context.close(), then the test !headless && browserInstance !== browser
ContextClose(r) ==
  /\ ~exited
  /\ req[r].pc = "ctxClose"
  /\ \/ LET q == [req[r] EXCEPT !.ctx = "closed"]
        IN IF ~Headless(q.body.opts) /\ q.bi # browser
             THEN Set(r, [q EXCEPT !.pc = "browserClose"])
             ELSE Set(r, Finish(q))
     \/ Set(r, Respond500(req[r], "ctxClose"))
  /\ UNCHANGED <<browser, inst, sig, exited>>

\* browserInstance.close() of a debug instance
BrowserClose(r) ==
  /\ ~exited
  /\ req[r].pc = "browserClose"
  /\ \/ /\ inst' = [inst EXCEPT ![req[r].bi].status = "closed"]
        /\ Set(r, Finish(req[r]))
     \/ /\ inst' = inst
        /\ Set(r, Respond500(req[r], "browserClose"))
  /\ UNCHANGED <<browser, sig, exited>>

-----------------------------------------------------------------------------
(* process.on("SIGTERM" / "SIGINT") *)

\* The handler up to its await: browser.close() is called, or the process exits
Signal(h) ==
  /\ ~exited
  /\ sig[h].pc = "idle"
  /\ IF browser # 0
       THEN /\ inst' = [inst EXCEPT ![browser].status = "closing"]
            /\ sig' = [sig EXCEPT ![h] = [pc |-> "closing", target |-> browser]]
            /\ exited' = exited
       ELSE /\ inst' = inst
            /\ sig' = [sig EXCEPT ![h].pc = "exited"]
            /\ exited' = TRUE
  /\ UNCHANGED <<browser, req>>

\* browser.close() resolved: browser = null; process.exit(0)
CloseResolved(h) ==
  /\ ~exited
  /\ sig[h].pc = "closing"
  /\ inst' = [inst EXCEPT ![sig[h].target].status = "closed"]
  /\ browser' = 0
  /\ sig' = [sig EXCEPT ![h].pc = "exited"]
  /\ exited' = TRUE
  /\ UNCHANGED req

\* browser.close() rejected: the handler's promise rejects with nothing to catch
\* it; the runtime either ends the process or only warns
CloseRejected(h) ==
  /\ ~exited
  /\ sig[h].pc = "closing"
  /\ \/ /\ sig' = [sig EXCEPT ![h].pc = "crashed"]
        /\ exited' = TRUE
     \/ /\ sig' = [sig EXCEPT ![h].pc = "rejected"]
        /\ exited' = exited
  /\ UNCHANGED <<browser, inst, req>>

-----------------------------------------------------------------------------
(* Specifications *)

Capture(r) ==
  \/ Launch(r) \/ NewContext(r) \/ NewPage(r)
  \/ Goto(r) \/ AddStyleTag(r) \/ DebugWait(r)
  \/ Count(r) \/ WaitFor(r) \/ IsVisible(r) \/ Evaluate(r)
  \/ ElementShot(r) \/ PageShot(r)
  \/ SetContent(r) \/ WaitForCard(r) \/ DebugWaitHtml(r) \/ CardShot(r)
  \/ PageClose(r) \/ ContextClose(r) \/ BrowserClose(r)

Shutdown == \E h \in Handlers : Signal(h) \/ CloseResolved(h) \/ CloseRejected(h)

\* Concurrent requests
Next ==
  \/ \E r \in Reqs : PostScreenshot(r, ConcBodies)
  \/ \E r \in Reqs : Capture(r)
  \/ Shutdown

Spec == Init /\ [][Next]_vars

\* One request, every body of the enumeration
NextOne ==
  \/ PostScreenshot(1, AllBodies)
  \/ Capture(1)
  \/ Shutdown

SpecOne == Init /\ [][NextOne]_vars

-----------------------------------------------------------------------------
(* Properties *)

Done(r) == req[r].pc = "done"
Opts(r) == req[r].body.opts
PageKind(r) == IF FullPage(Opts(r)) THEN "fullpage" ELSE "viewport"

\* Instances that a headless getBrowser call launched and that came up
SharedLaunched ==
  {i \in Reqs : inst[i].shared /\ inst[i].status \in {"running", "closing", "closed"}}

\* C1: under every interleaving of headless requests the shared browser is
\* launched at most once, and all headless requests use the same instance.
ClaimC1 ==
  /\ Cardinality(SharedLaunched) <= 1
  /\ \A r1, r2 \in Reqs :
       (/\ req[r1].bi # 0 /\ Headless(Opts(r1))
        /\ req[r2].bi # 0 /\ Headless(Opts(r2))) => req[r1].bi = req[r2].bi

\* C2: when a capture request has completed, on any exit path, every context
\* and every page it opened has been closed.
ClaimC2 ==
  \A r \in Reqs : Done(r) => (req[r].ctx # "open" /\ req[r].page # "open")

\* C3: a successful response carries the Content-Type of the image that was
\* captured (png whenever transparent is in effect).
ClaimC3 ==
  \A r \in Reqs :
    req[r].resp.status = 200 => req[r].resp.ctype = MimeOf(req[r].imgType)

\* The element path of a URL-mode request failed (any of its steps)
ElementPathFailed(r) == req[r].mode = "url" /\ req[r].elemErr # "none"

\* C4 as stated: after a failure in the element path of a URL-mode request the
\* page-level capture is taken exactly once and its bytes are returned with 200.
ClaimC4 ==
  \A r \in Reqs :
    (Done(r) /\ ElementPathFailed(r)) =>
      /\ req[r].pageShots = 1
      /\ req[r].resp.status = 200
      /\ req[r].resp.bytes = PageKind(r)

\* C4 amended: after a failure in the element path of a URL-mode request the
\* page-level capture is attempted exactly once and no element bytes are
\* returned; the response is 200 with the page-level bytes unless that capture
\* or a teardown step itself failed, and then it is 500.
FallbackC4 ==
  \A r \in Reqs :
    (Done(r) /\ ElementPathFailed(r)) =>
      /\ req[r].pageShots = 1
      /\ req[r].ret # "element"
      /\ \/ /\ req[r].err = "none"
            /\ req[r].resp.status = 200
            /\ req[r].resp.bytes = PageKind(r)
         \/ /\ req[r].err \in {"pageShot", "pageClose", "ctxClose", "browserClose"}
            /\ req[r].resp.status = 500

\* A URL-mode request whose selector failed answered 200 with the full page
WitnessC4 ==
  \E r \in Reqs :
    /\ Done(r) /\ ElementPathFailed(r)
    /\ req[r].resp.status = 200 /\ req[r].resp.bytes = "fullpage"

\* C5: in HTML mode, when #review-card never becomes visible, no element
\* capture and no page capture is taken and the response is 500
\* "Screenshot failed".
ClaimC5 ==
  \A r \in Reqs :
    (Done(r) /\ req[r].mode = "html" /\ req[r].elemErr = "waitForCard") =>
      /\ req[r].elemShots = 0
      /\ req[r].pageShots = 0
      /\ req[r].ret = "none"
      /\ req[r].resp.status = 500
      /\ req[r].resp.error = "Screenshot failed"

\* An HTML-mode request completed after the wait for #review-card failed
WitnessC5 ==
  \E r \in Reqs :
    /\ Done(r) /\ req[r].mode = "html" /\ req[r].elemErr = "waitForCard"
    /\ req[r].page = "closed" /\ req[r].resp.status = 500

\* No capture was started for request r
NotStarted(r) ==
  /\ req[r].mode = "none" /\ req[r].bi = 0 /\ req[r].ctx = "none"
  /\ inst[r].status = "none"

\* C6: a body whose html is present and not a string is answered 400
\* "Invalid HTML format" and no capture is started.
ClaimC6 ==
  \A r \in Reqs :
    (req[r].pc # "idle" /\ req[r].body.html.t \notin {"undefined", "string"}) =>
      /\ Done(r) /\ NotStarted(r)
      /\ req[r].resp.status = 400
      /\ req[r].resp.error = "Invalid HTML format"

\* Request r has no html and a url string that does not parse
UnparsableUrl(r) ==
  /\ req[r].pc # "idle"
  /\ req[r].body.html = Undefined
  /\ req[r].body.url.t = "string"
  /\ ~ParsesAsUrl(req[r].body.url.s)

\* C7 as stated: a body without html whose url is a string that does not parse,
\* the empty string included, is answered 400 "Invalid URL format" and
\* takeScreenshot is not called.
ClaimC7 ==
  \A r \in Reqs :
    UnparsableUrl(r) =>
      /\ Done(r) /\ NotStarted(r)
      /\ req[r].resp.status = 400
      /\ req[r].resp.error = "Invalid URL format"

\* C7 amended: such a body is answered 400 and takeScreenshot is not called;
\* the error is "Invalid URL format" for a non-empty url and
\* "URL or HTML is required" for the empty string.
InvalidUrlC7 ==
  \A r \in Reqs :
    UnparsableUrl(r) =>
      /\ Done(r) /\ NotStarted(r)
      /\ req[r].resp.status = 400
      /\ req[r].resp.error = IF req[r].body.url.s = <<>>
                               THEN "URL or HTML is required"
                               ELSE "Invalid URL format"

\* A non-empty url without a scheme was answered 400 "Invalid URL format"
WitnessC7 ==
  \E r \in Reqs :
    /\ UnparsableUrl(r) /\ req[r].body.url.s = <<"a", "1">>
    /\ req[r].resp.status = 400 /\ req[r].resp.error = "Invalid URL format"

\* The state of the shared handle
HandleOf(b, i, s) ==
  IF b # 0
    THEN IF i[b].status = "running" THEN "running" ELSE "closed"
    ELSE IF \E h \in Handlers : s[h].pc = "exited" /\ s[h].target # 0
      THEN "closed" ELSE "uninitialized"
HandleState == HandleOf(browser, inst, sig)

\* C8: the shared handle only moves uninitialized -> running -> closed; it
\* becomes running only in a headless getBrowser call and is closed only by a
\* signal handler.
ClaimC8 ==
  [][LET old == HandleState
         new == HandleOf(browser', inst', sig')
     IN /\ old # new =>
             \/ /\ old = "uninitialized" /\ new = "running"
                /\ \E r \in Reqs : /\ req[r].pc = "launch" /\ Headless(Opts(r))
                                   /\ req'[r].pc = "newContext"
             \/ /\ old = "running" /\ new = "closed"
                /\ \E h \in Handlers : sig'[h] # sig[h]]_vars

\* A debug request that launched its browser has closed it when it completes
DebugClosed ==
  \A r \in Reqs :
    (Done(r) /\ ~Headless(Opts(r)) /\ inst[r].status \notin {"none", "failed"}) =>
      inst[r].status = "closed"

\* C9: a debug request launches its own instance, has closed it when it
\* completes on every exit path, and none of its steps changes the shared handle.
ClaimC9 ==
  /\ []DebugClosed
  /\ [][\A r \in Reqs :
          (req'[r] # req[r] /\ req'[r].mode # "none" /\ ~Headless(req'[r].body.opts))
            => browser' = browser]_vars

\* C10: a signal handler never ends without the process exiting, and when the
\* process exits the browser that the shared handle held has been closed.
ClaimC10 ==
  /\ [](\A h \in Handlers : sig[h].pc = "rejected" => exited)
  /\ [][(exited' /\ ~exited /\ browser # 0) => inst'[browser].status = "closed"]_vars

====
